---- MODULE Spec2Model ----
(***************************************************************************)
(* Model of src/eda.py: the one-pass EDA pipeline main() and its helpers   *)
(* load_parquet and to_utc.  A state is the position of main() (pc), the   *)
(* files it reads, the dataframe tx it transforms and the outputs it has   *)
(* produced so far (figures, report lines, report file).                   *)
(*                                                                         *)
(* Numbers that the code divides (amounts, rates, means) are exact         *)
(* rationals [nan, n, d]; nan is pandas' missing value NaN.                *)
(***************************************************************************)
EXTENDS Integers, Sequences, FiniteSets

\* ------------------------------------------------------------------ bounds
MaxRows == 2
MaxActRows == 3

\* ------------------------------------------------------- program constants
QuantilePct == 95
HeadCountries == 20
HeadTop == 5
HeadVendorTypes == 12

\* ------------------------------------------------------------ numbers
Num(n, d) == [nan |-> FALSE, n |-> n, d |-> d]
NaN == [nan |-> TRUE, n |-> 0, d |-> 1]
\* equality of two present rationals (cross multiplication), NaN equals nothing
NumEq(a, b) == ~a.nan /\ ~b.nan /\ a.n * b.d = b.n * a.d
\* a > b on present rationals with positive denominators
NumGt(a, b) == ~a.nan /\ ~b.nan /\ a.n * b.d > b.n * a.d
\* float division a / b; NaN in either operand gives NaN
Div(a, b) == IF a.nan \/ b.nan THEN NaN ELSE Num(a.n * b.d, a.d * b.n)

\* ------------------------------------------------------------ sequences
RECURSIVE Concat(_)
Concat(ss) == IF ss = <<>> THEN <<>> ELSE Head(ss) \o Concat(Tail(ss))

RECURSIVE SeqsUpTo(_, _)
SeqsUpTo(S, k) ==
  IF k = 0 THEN {<<>>}
  ELSE LET P == SeqsUpTo(S, k - 1)
       IN P \cup {Append(s, x) : s \in {p \in P : Len(p) = k - 1}, x \in S}

Range(s) == {s[i] : i \in 1..Len(s)}
CountIf(s, T(_)) == Cardinality({i \in 1..Len(s) : T(s[i])})

\* ------------------------------------------------------------ timestamps
\* a raw timestamp value: missing, unparseable, or wall clock + UTC offset
Ts(day, hour, off) == [kind |-> "ok", day |-> day, hour |-> hour, off |-> off]
TsNull == [kind |-> "null", day |-> 0, hour |-> 0, off |-> 0]
TsBad == [kind |-> "bad", day |-> 0, hour |-> 0, off |-> 0]
NaT == [kind |-> "nat", day |-> 0, hour |-> 0, off |-> 0]

\* pd.to_datetime(ts, utc=True, errors="coerce") on one value
to_utc_local(ts) ==
  IF ts.kind = "ok" THEN Ts(ts.day, ts.hour, 0) ELSE NaT
to_utc(ts) ==
  IF ts.kind = "ok"
  THEN LET h == ts.day * 24 + ts.hour - ts.off
       IN Ts(h \div 24, h % 24, 0)
  ELSE NaT

\* ------------------------------------------------------------ loader
TXPath == "transaction_fraud_data.parquet"
FXPath == "historical_currency_exchange.parquet"

\* RuntimeError(f"Cannot read {path}: {e}"); e is the exception of the reader
\* named by cause
NoError == [path |-> "", cause |-> ""]
CannotRead(path, cause) == [path |-> path, cause |-> cause]

\* load_parquet(path, columns): file is what is on disk, primaryOk/fallbackOk
\* say whether pd.read_parquet / duckdb succeed on it
load_parquet_swapped(path, file, primaryOk, fallbackOk) ==
  IF fallbackOk
  THEN [raised |-> FALSE, table |-> file, calls |-> <<"duckdb">>,
        by |-> "duckdb", err |-> NoError]
  ELSE IF primaryOk
  THEN [raised |-> FALSE, table |-> file, calls |-> <<"duckdb", "read_parquet">>,
        by |-> "read_parquet", err |-> NoError]
  ELSE [raised |-> TRUE, table |-> file, calls |-> <<"duckdb", "read_parquet">>,
        by |-> "", err |-> CannotRead(path, "duckdb")]
load_parquet(path, file, primaryOk, fallbackOk) ==
  IF primaryOk
  THEN [raised |-> FALSE, table |-> file, calls |-> <<"read_parquet">>,
        by |-> "read_parquet", err |-> NoError]
  ELSE IF fallbackOk
  THEN [raised |-> FALSE, table |-> file, calls |-> <<"read_parquet", "duckdb">>,
        by |-> "duckdb", err |-> NoError]
  ELSE [raised |-> TRUE, table |-> file, calls |-> <<"read_parquet", "duckdb">>,
        by |-> "", err |-> CannotRead(path, "duckdb")]

\* ------------------------------------------------------------ dataframes
\* one transaction row; the derived columns (date, per_usd, amount_usd, hour)
\* hold a default until the step that creates the column (see txCols)
Row(id, cust, ts, amt, cur, country, fraud, act) ==
  [transaction_id |-> id, customer_id |-> cust, timestamp |-> ts,
   amount |-> amt, currency |-> cur, country |-> country, is_fraud |-> fraud,
   vendor_type |-> IF cur = "USD" THEN "retail" ELSE "travel",
   is_high_risk_vendor |-> (cur # "USD"),
   last_hour_activity |-> act,
   date |-> 0, per_usd |-> NaN, amount_usd |-> NaN, hour |-> 0]

NULL == "NULL"
ReqCols == {"transaction_id", "customer_id", "timestamp", "amount", "currency"}

\* values of the nested last_hour_activity field
ActNotDict == [kind |-> "notdict", v |-> 0]
ActNoKey == [kind |-> "nokey", v |-> 0]
ActNum(v) == [kind |-> "num", v |-> v]
ActStr == [kind |-> "str", v |-> 0]

\* tx.dropna(subset=["timestamp", "amount", "currency"])
HasKeyValues(r) ==
  r.timestamp.kind # "null" /\ ~r.amount.nan /\ r.currency # NULL
dropna_keys_none(rows) == rows
dropna_keys(rows) == SelectSeq(rows, HasKeyValues)

\* tx["timestamp"] = to_utc(tx["timestamp"])
coerce_timestamps(rows) ==
  [i \in 1..Len(rows) |-> [rows[i] EXCEPT !.timestamp = to_utc(@)]]

\* tx.dropna(subset=["timestamp"])
HasTimestamp(r) == r.timestamp.kind # "nat"
dropna_timestamp(rows) == SelectSeq(rows, HasTimestamp)

\* tx["date"] = tx["timestamp"].dt.date
derive_date(rows) ==
  [i \in 1..Len(rows) |-> [rows[i] EXCEPT !.date = rows[i].timestamp.day]]

\* ------------------------------------------------------------ conversion
FxCurrencies == <<"USD", "EUR">>

\* fx.melt(id_vars=["date"], ...) followed by pd.to_datetime(date).dt.date:
\* one long row per (wide row, currency column), column by column
melt_column(fxrows, c) ==
  [i \in 1..Len(fxrows) |->
     [date |-> fxrows[i].date.day, currency |-> c, per_usd |-> fxrows[i][c]]]
melt(fxrows) ==
  Concat([k \in 1..Len(FxCurrencies) |-> melt_column(fxrows, FxCurrencies[k])])

\* tx.merge(fx_long, on=["date", "currency"], how="left")
merge_left(rows, fx_long) ==
  LET Matches(r) ==
        SelectSeq(fx_long, LAMBDA f : f.date = r.date /\ f.currency = r.currency)
      Joined(r) ==
        IF Matches(r) = <<>> THEN <<r>>
        ELSE [j \in 1..Len(Matches(r)) |-> [r EXCEPT !.per_usd = Matches(r)[j].per_usd]]
  IN Concat([i \in 1..Len(rows) |-> Joined(rows[i])])

\* np.where(currency == "USD", amount, amount / per_usd) on one row
convert_always_divide(r) == Div(r.amount, r.per_usd)
convert_fill_raw(r) ==
  IF r.currency = "USD" \/ r.per_usd.nan THEN r.amount
  ELSE Div(r.amount, r.per_usd)
convert(r) ==
  IF r.currency = "USD" THEN r.amount ELSE Div(r.amount, r.per_usd)

raw_divided(r) == Div(r.amount, r.per_usd)
\* tx[amount_usd_col] = tx["amount"] on one row
Raw(r) == r.amount

\* lines 72-74 on every row
convert_amounts(rows) ==
  [i \in 1..Len(rows) |-> [rows[i] EXCEPT !.amount_usd = convert(rows[i])]]
\* lines 76 and 78 on every row
copy_amounts(rows) ==
  [i \in 1..Len(rows) |-> [rows[i] EXCEPT !.amount_usd = Raw(rows[i])]]

\* ------------------------------------------------------------ aggregates
\* sort_values(ascending=False).head(k) of a set of (key, val) entries
RECURSIVE sort_desc(_)
sort_desc(S) ==
  IF S = {} THEN <<>>
  ELSE LET top == CHOOSE e \in S : \A f \in S : ~NumGt(f.val, e.val)
       IN <<top>> \o sort_desc(S \ {top})
head(s, k) == SubSeq(s, 1, IF Len(s) < k THEN Len(s) ELSE k)

IsFraud(r) == r.is_fraud

\* tx["vendor_type"].value_counts().head(12).index
top_vendor_types(rows) ==
  LET counts == {[key |-> k, val |-> Num(CountIf(rows, LAMBDA r : r.vendor_type = k), 1)] :
                   k \in {rows[i].vendor_type : i \in 1..Len(rows)}}
      top == head(sort_desc(counts), HeadVendorTypes)
  IN {top[i].key : i \in 1..Len(top)}

\* float(tx["is_fraud"].mean() * 100); the mean of no rows is NaN
fraud_rate_of(rows) ==
  IF Len(rows) = 0 THEN NaN ELSE Num(CountIf(rows, IsFraud) * 100, Len(rows))

\* tx.groupby(col)["is_fraud"].mean(): one entry per value of col that occurs
groupby_mean(rows, col) ==
  {[key |-> k,
    val |-> Num(CountIf(rows, LAMBDA r : r[col] = k /\ r.is_fraud),
                CountIf(rows, LAMBDA r : r[col] = k))] :
     k \in {rows[i][col] : i \in 1..Len(rows)}}

\* tx.loc[tx["is_fraud"] == True, "country"].value_counts()
fraud_value_counts(rows) ==
  {[key |-> k,
    val |-> Num(CountIf(rows, LAMBDA r : r.country = k /\ r.is_fraud), 1)] :
     k \in {rows[i].country : i \in {j \in 1..Len(rows) : rows[j].is_fraud}}}

\* tx[amount_usd_col].dropna(), the data of the histogram
hist_data(rows) ==
  LET Present(r) == ~r.amount_usd.nan
      kept == SelectSeq(rows, Present)
  IN [i \in 1..Len(kept) |-> kept[i].amount_usd]

\* tx["hour"] = tx["timestamp"].dt.hour
derive_hour(rows) ==
  [i \in 1..Len(rows) |-> [rows[i] EXCEPT !.hour = rows[i].timestamp.hour]]

\* ------------------------------------------------- customer activity metric
\* x.get("unique_merchants") if isinstance(x, dict) else None;
\* the value is present only for a mapping that holds the key
uniq_present(r) == r.last_hour_activity.kind \in {"num", "str"}

\* tmp.dropna(subset=["uniq_last_hour"])
activity_rows(rows) == SelectSeq(rows, uniq_present)

activity_raises_on_missing(rows) ==
  \E i \in 1..Len(rows) : rows[i].last_hour_activity.kind # "num"
\* the median of a non-numeric column raises inside the try block
activity_raises(rows) ==
  \E i \in 1..Len(rows) : uniq_present(rows[i]) /\ rows[i].last_hour_activity.kind = "str"

RECURSIVE sorted_ints(_)
\* the values of a sequence of integers in ascending order
sorted_ints(s) ==
  IF s = <<>> THEN <<>>
  ELSE LET i == CHOOSE k \in 1..Len(s) : \A j \in 1..Len(s) : s[k] <= s[j]
       IN <<s[i]>> \o sorted_ints([j \in 1..(Len(s) - 1) |-> IF j < i THEN s[j] ELSE s[j + 1]])

\* twice the median of a non-empty sequence of integers (an integer)
median2(s) ==
  LET t == sorted_ints(s)
      n == Len(t)
  IN IF n % 2 = 1 THEN 2 * t[(n + 1) \div 2]
     ELSE t[n \div 2] + t[n \div 2 + 1]

\* tmp.groupby("customer_id")["uniq_last_hour"].median(), as twice the median
customer_medians2(rows) ==
  LET tmp == activity_rows(rows)
      custs == {tmp[i].customer_id : i \in 1..Len(tmp)}
      vals(c) == LET mine == SelectSeq(tmp, LAMBDA r : r.customer_id = c)
                 IN [i \in 1..Len(mine) |-> mine[i].last_hour_activity.v]
  IN [c \in custs |-> median2(vals(c))]

RECURSIVE fun_values(_)
\* the values of a function with a finite domain, as a sequence
fun_values(f) ==
  IF DOMAIN f = {} THEN <<>>
  ELSE LET c == CHOOSE x \in DOMAIN f : TRUE
       IN <<f[c]>> \o fun_values([x \in DOMAIN f \ {c} |-> f[x]])

\* med.quantile(0.95, interpolation="linear"): with the n medians sorted and
\* h = 0.95 * (n - 1), the value m[floor h] + frac(h) * (m[floor h + 1] - m[floor h])
quantile_linear(med2) ==
  LET m == sorted_ints(fun_values(med2))
      n == Len(m)
      h == QuantilePct * (n - 1)
      lo == h \div 100
      fr == h % 100
  IN IF n = 0 THEN NaN
     ELSE IF fr = 0 THEN Num(m[lo + 1], 2)
     ELSE Num(100 * m[lo + 1] + fr * (m[lo + 2] - m[lo + 1]), 200)

\* int((med > thr).sum())
count_above_or_equal(med2, thr) ==
  Cardinality({c \in DOMAIN med2 :
     NumGt(Num(med2[c], 2), thr) \/ NumEq(Num(med2[c], 2), thr)})
count_above(med2, thr) ==
  Cardinality({c \in DOMAIN med2 : NumGt(Num(med2[c], 2), thr)})

\* ------------------------------------------------------------ report
Line(k, s, n, d) == [k |-> k, s |-> s, n |-> n, d |-> d]

\* f"{x:.1f}": x rounded to tenths (ties to even), "nan" for NaN
format_1f(x) ==
  IF x.nan THEN Line("fraud_rate", "nan", 0, 10)
  ELSE LET q == (10 * x.n) \div x.d
           r == (10 * x.n) % x.d
           t == IF 2 * r > x.d \/ (2 * r = x.d /\ q % 2 = 1) THEN q + 1 ELSE q
       IN Line("fraud_rate", "", t, 10)

\* the lines of one top-5 list
country_lines(top) == [i \in 1..Len(top) |-> Line("country", top[i].key, top[i].val.n, 1)]

\* lines 133-148: the section on unique merchants in the last hour
activity_section(cols, rows) ==
  IF "last_hour_activity" \notin cols THEN <<>>
  ELSE IF activity_raises(rows)
  THEN <<Line("blank", "", 0, 1), Line("h2_activity_failed", "", 0, 1),
         Line("could_not_parse", "TypeError", 0, 1)>>
  ELSE LET med == customer_medians2(rows)
           thr == quantile_linear(med)
       IN <<Line("blank", "", 0, 1), Line("h2_activity", "", 0, 1),
            Line("count_strict", "", count_above(med, thr), 1)>>

\* lines 114-130
summary_lines(cols, rows, tot, fr, rate) ==
  <<Line("header", "", 0, 1), Line("blank", "", 0, 1), Line("total", "", tot, 1)>>
  \o (IF rate.none THEN <<>> ELSE <<Line("fraud", "", fr.v, 1), format_1f(rate.v)>>)
  \o (IF "amount_usd" \in cols THEN <<Line("normalized", "amount_usd", 0, 1)>> ELSE <<>>)
  \o (IF {"is_fraud", "country"} \subseteq cols
      THEN <<Line("blank", "", 0, 1), Line("h2_top5", "", 0, 1)>>
           \o country_lines(head(sort_desc(fraud_value_counts(rows)), HeadTop))
      ELSE <<>>)

\* ------------------------------------------------------------ state
VARIABLES
  txFile,      \* the transactions file on disk: [cols, rows]
  fxFile,      \* the exchange-rate file on disk: [exists, cols, rows]
  readers,     \* which reader succeeds on which file
  pc,          \* position of main()
  tx,          \* rows of the dataframe tx
  txCols,      \* columns of the dataframe tx
  calls,       \* readers invoked so far, as <<path, reader>>
  error,       \* the RuntimeError that ended the run, NoError if none
  total, fraud, fraud_rate,   \* the KPIs of lines 82-84
  figs,        \* names of the figures saved
  charts,      \* the data plotted
  lines,       \* the report lines built so far
  report       \* content of eda_summary.md, <<>> while not written

vars == <<txFile, fxFile, readers, pc, tx, txCols, calls, error,
          total, fraud, fraud_rate, figs, charts, lines, report>>

None == [none |-> TRUE, v |-> 0]
NoneNum == [none |-> TRUE, v |-> NaN]
Some(v) == [none |-> FALSE, v |-> v]
NoCharts == [by_country |-> <<>>, hist |-> <<>>, by_hour |-> {},
             by_high_risk |-> {}, by_vendor_type |-> <<>>]

\* ------------------------------------------------------------ inputs
AllCols == ReqCols \cup {"country", "city", "vendor", "vendor_type", "device",
                         "card_type", "is_high_risk_vendor", "is_fraud",
                         "last_hour_activity"}

\* 23:00 at UTC-2 on day 1 is 01:00 UTC on day 2; 01:00 at UTC+3 on day 2 is
\* 22:00 UTC on day 1
TsA == Ts(1, 23, -2)
TsB == Ts(2, 1, 3)

CountryOf(cur) == IF cur = "USD" THEN "US" ELSE "DE"

\* rows of the conversion inputs: every combination of a valid row, and one
\* row for each way a key value can be absent
ConvShapes ==
  [ts : {TsA, TsB}, ca : {<<"USD", 100>>, <<"EUR", 50>>}, fraud : BOOLEAN]
DefectRows ==
  {[ts |-> TsNull, amount |-> Num(100, 1), currency |-> "USD"],
   [ts |-> TsBad, amount |-> Num(50, 1), currency |-> "EUR"],
   [ts |-> TsA, amount |-> NaN, currency |-> "EUR"],
   [ts |-> TsA, amount |-> Num(100, 1), currency |-> NULL]}
ConvRows ==
  {[ts |-> sh.ts, amount |-> Num(sh.ca[2], 1), currency |-> sh.ca[1], fraud |-> sh.fraud,
    cust |-> "c1", act |-> ActNum(1)] : sh \in ConvShapes}
  \cup {[ts |-> d.ts, amount |-> d.amount, currency |-> d.currency, fraud |-> TRUE,
         cust |-> "c1", act |-> ActNum(1)] : d \in DefectRows}

\* rows of the activity inputs: valid USD rows of three customers with one or
\* four unique merchants, and rows of one customer whose value is no mapping,
\* a mapping without the key, or a mapping with a non-numeric value
ActRow(c, a) ==
  [ts |-> TsA, amount |-> Num(100, 1), currency |-> "USD", fraud |-> FALSE,
   cust |-> c, act |-> a]
ActRows ==
  {ActRow(c, a) : c \in {"c1", "c2", "c3"}, a \in {ActNum(1), ActNum(4)}}
  \cup {ActRow("c1", a) : a \in {ActNotDict, ActNoKey, ActStr}}

\* the table holding the given rows in order; transaction_id is the position
TxTable(cols, shapes) ==
  [cols |-> cols,
   rows |-> [i \in 1..Len(shapes) |->
               Row(i, shapes[i].cust, shapes[i].ts, shapes[i].amount,
                   shapes[i].currency, CountryOf(shapes[i].currency),
                   shapes[i].fraud, shapes[i].act)]]

\* rate files: the wide table has a date column and one column per currency
FxRow(day, hour, usd, eur) == [date |-> Ts(day, hour, 0), USD |-> usd, EUR |-> eur]
FxAbsent == [exists |-> FALSE, cols |-> {}, rows |-> <<>>]
FxTable(rows) == [exists |-> TRUE, cols |-> {"date", "USD", "EUR"}, rows |-> rows]
FxNoDate(rows) == [exists |-> TRUE, cols |-> {"day", "USD", "EUR"}, rows |-> rows]
FxOne == <<FxRow(2, 0, Num(1, 1), Num(9, 10))>>
\* two rows whose date values fall on the same calendar date
FxTwo == <<FxRow(2, 0, Num(1, 1), Num(9, 10)), FxRow(2, 12, Num(1, 1), Num(2, 1))>>
FxTables ==
  {<<>>, FxOne, FxTwo,
   <<FxRow(2, 0, Num(1, 1), NaN)>>,
   <<FxRow(2, 0, Num(1, 1), NaN), FxRow(2, 12, Num(1, 1), Num(9, 10))>>,
   <<FxRow(1, 0, Num(1, 1), Num(2, 1)), FxRow(2, 0, Num(1, 1), Num(9, 10))>>,
   <<FxRow(2, 0, NaN, Num(9, 10))>>}

AllOk == [txPrimary |-> TRUE, txFallback |-> TRUE, fxPrimary |-> TRUE, fxFallback |-> TRUE]

TwoRows ==
  <<[ts |-> TsA, amount |-> Num(100, 1), currency |-> "USD", fraud |-> TRUE,
     cust |-> "c1", act |-> ActNum(2)],
    [ts |-> TsA, amount |-> Num(50, 1), currency |-> "EUR", fraud |-> FALSE,
     cust |-> "c2", act |-> ActNum(4)]>>

\* conversion inputs: every table of at most MaxRows rows against every rate file
InitConversion ==
  /\ txFile \in {TxTable(AllCols, sh) : sh \in SeqsUpTo(ConvRows, MaxRows)}
  /\ fxFile \in {FxAbsent, FxNoDate(FxOne)}
                \cup {FxTable(r) : r \in FxTables}
  /\ readers = AllOk

\* activity inputs: every table of at most MaxActRows rows
InitActivity ==
  /\ txFile \in {TxTable(AllCols, sh) : sh \in SeqsUpTo(ActRows, MaxActRows)}
  /\ fxFile \in {FxAbsent, FxTable(FxTwo)}
  /\ readers = AllOk

\* loader inputs: every reader outcome and every set of optional columns
InitLoader ==
  /\ txFile \in {TxTable(AllCols \ opt, TwoRows) :
                   opt \in SUBSET {"is_fraud", "country", "last_hour_activity"}}
  /\ fxFile \in {FxAbsent, FxNoDate(FxOne), FxTable(FxTwo)}
  /\ readers \in [txPrimary : BOOLEAN, txFallback : BOOLEAN,
                  fxPrimary : BOOLEAN, fxFallback : BOOLEAN]

Init ==
  /\ InitConversion \/ InitActivity \/ InitLoader
  /\ pc = "load"
  /\ tx = <<>>
  /\ txCols = {}
  /\ calls = <<>>
  /\ error = NoError
  /\ total = 0
  /\ fraud = None
  /\ fraud_rate = NoneNum
  /\ figs = {}
  /\ charts = NoCharts
  /\ lines = <<>>
  /\ report = <<>>

\* ------------------------------------------------------------ main()
Tag(path, cs) == [i \in 1..Len(cs) |-> <<path, cs[i]>>]

\* line 54: tx = load_parquet(TX, columns=...)
LoadTx ==
  /\ pc = "load"
  /\ LET res == load_parquet(TXPath, txFile, readers.txPrimary, readers.txFallback)
     IN /\ calls' = calls \o Tag(TXPath, res.calls)
        /\ IF res.raised
           THEN /\ pc' = "aborted"
                /\ error' = res.err
                /\ UNCHANGED <<tx, txCols>>
           ELSE /\ pc' = "clean"
                /\ tx' = res.table.rows
                /\ txCols' = res.table.cols
                /\ UNCHANGED error
  /\ UNCHANGED <<txFile, fxFile, readers, total, fraud, fraud_rate, figs, charts,
                 lines, report>>

\* lines 56-61: drop rows without key values, coerce timestamps, derive date
Clean ==
  /\ pc = "clean"
  /\ tx' = derive_date(dropna_timestamp(coerce_timestamps(dropna_keys(tx))))
  /\ txCols' = txCols \cup {"date"}
  /\ pc' = "convert"
  /\ UNCHANGED <<txFile, fxFile, readers, calls, error, total, fraud, fraud_rate,
                 figs, charts, lines, report>>

FxLoad == load_parquet(FXPath, fxFile, readers.fxPrimary, readers.fxFallback)

\* lines 66, 77-78: no rate file
ConvertNoFx ==
  /\ pc = "convert"
  /\ ~fxFile.exists
  /\ tx' = copy_amounts(tx)
  /\ txCols' = txCols \cup {"amount_usd"}
  /\ pc' = "aggregate"
  /\ UNCHANGED <<txFile, fxFile, readers, calls, error, total, fraud, fraud_rate,
                 figs, charts, lines, report>>

\* line 67: the rate file exists and neither reader can load it
ConvertFxUnreadable ==
  /\ pc = "convert"
  /\ fxFile.exists
  /\ FxLoad.raised
  /\ calls' = calls \o Tag(FXPath, FxLoad.calls)
  /\ error' = FxLoad.err
  /\ pc' = "aborted"
  /\ UNCHANGED <<txFile, fxFile, readers, tx, txCols, total, fraud, fraud_rate,
                 figs, charts, lines, report>>

\* lines 67-68, 75-76: the rate table has no date column
ConvertNoDate ==
  /\ pc = "convert"
  /\ fxFile.exists
  /\ ~FxLoad.raised
  /\ "date" \notin FxLoad.table.cols
  /\ calls' = calls \o Tag(FXPath, FxLoad.calls)
  /\ tx' = copy_amounts(tx)
  /\ txCols' = txCols \cup {"amount_usd"}
  /\ pc' = "aggregate"
  /\ UNCHANGED <<txFile, fxFile, readers, error, total, fraud, fraud_rate,
                 figs, charts, lines, report>>

\* lines 67-74: melt the rate table, left join, convert
ConvertJoin ==
  /\ pc = "convert"
  /\ fxFile.exists
  /\ ~FxLoad.raised
  /\ "date" \in FxLoad.table.cols
  /\ calls' = calls \o Tag(FXPath, FxLoad.calls)
  /\ tx' = convert_amounts(merge_left(tx, melt(FxLoad.table.rows)))
  /\ txCols' = txCols \cup {"per_usd", "amount_usd"}
  /\ pc' = "aggregate"
  /\ UNCHANGED <<txFile, fxFile, readers, error, total, fraud, fraud_rate,
                 figs, charts, lines, report>>

\* lines 82-111: the KPIs and the figures
Aggregate ==
  /\ pc = "aggregate"
  /\ LET hasFraud == "is_fraud" \in txCols
         withHour == IF hasFraud THEN derive_hour(tx) ELSE tx
         inTop == SelectSeq(withHour, LAMBDA r : r.vendor_type \in top_vendor_types(withHour))
     IN /\ total' = Len(tx)
        /\ fraud' = IF hasFraud THEN Some(CountIf(tx, IsFraud)) ELSE None
        /\ fraud_rate' = IF hasFraud THEN Some(fraud_rate_of(tx)) ELSE NoneNum
        /\ tx' = withHour
        /\ txCols' = IF hasFraud THEN txCols \cup {"hour"} ELSE txCols
        /\ charts' =
             [by_country |-> IF hasFraud /\ "country" \in txCols
                             THEN head(sort_desc(groupby_mean(tx, "country")), HeadCountries)
                             ELSE <<>>,
              hist |-> hist_data(tx),
              by_hour |-> IF hasFraud THEN groupby_mean(withHour, "hour") ELSE {},
              by_high_risk |-> IF hasFraud /\ "is_high_risk_vendor" \in txCols
                               THEN groupby_mean(withHour, "is_high_risk_vendor") ELSE {},
              by_vendor_type |-> IF hasFraud /\ "vendor_type" \in txCols
                                 THEN sort_desc(groupby_mean(inTop, "vendor_type"))
                                 ELSE <<>>]
        /\ figs' = {"amount_usd_hist.png"}
             \cup (IF hasFraud /\ "country" \in txCols
                   THEN {"fraud_rate_by_country.png"} ELSE {})
             \cup (IF hasFraud THEN {"fraud_rate_by_hour.png"} ELSE {})
             \cup (IF hasFraud /\ "is_high_risk_vendor" \in txCols
                   THEN {"fraud_rate_high_risk_flag.png"} ELSE {})
             \cup (IF hasFraud /\ "vendor_type" \in txCols
                   THEN {"fraud_rate_by_vendor_type_top12.png"} ELSE {})
  /\ pc' = "report"
  /\ UNCHANGED <<txFile, fxFile, readers, calls, error, lines, report>>

\* lines 114-151: build the report and write it
Report ==
  /\ pc = "report"
  /\ lines' = summary_lines(txCols, tx, total, fraud, fraud_rate)
                \o activity_section(txCols, tx)
  /\ report' = lines'
  /\ pc' = "done"
  /\ UNCHANGED <<txFile, fxFile, readers, tx, txCols, calls, error, total, fraud,
                 fraud_rate, figs, charts>>

Next ==
  \/ LoadTx
  \/ Clean
  \/ ConvertNoFx
  \/ ConvertFxUnreadable
  \/ ConvertNoDate
  \/ ConvertJoin
  \/ Aggregate
  \/ Report

Spec == Init /\ [][Next]_vars

\* ------------------------------------------------------------ properties
\* an input row that has all key values and a timestamp that can be coerced
ValidInput(r) == r.timestamp.kind = "ok" /\ ~r.amount.nan /\ r.currency # NULL
Input(id) == txFile.rows[id]
SurvivorIds == {id \in 1..Len(txFile.rows) : ValidInput(Input(id))}
\* the calendar date of the instant, in UTC
UtcDay(ts) == (ts.day * 24 + ts.hour - ts.off) \div 24
UtcHour(ts) == (ts.day * 24 + ts.hour - ts.off) % 24
\* rows of tx that stem from input row id
RowsOf(id) == {i \in 1..Len(tx) : tx[i].transaction_id = id}
Converted == pc \in {"aggregate", "report", "done"}
Aggregated == pc \in {"report", "done"}
FxReadable == readers.fxPrimary \/ readers.fxFallback
JoinBranch == fxFile.exists /\ "date" \in fxFile.cols
\* rates the rate table holds for the date and currency of input row id
RatesFor(id) ==
  {fxFile.rows[k][Input(id).currency] :
     k \in {j \in 1..Len(fxFile.rows) :
              fxFile.rows[j].date.day = UtcDay(Input(id).timestamp)}}
HasLine(k) == \E i \in 1..Len(report) : report[i].k = k
LineOf(k) == report[CHOOSE i \in 1..Len(report) : report[i].k = k]

\* C1: once the amounts are converted, every surviving USD row is in tx and
\* each of its rows carries the raw amount of the input row as amount_usd,
\* whichever conversion branch ran.
C1_UsdAmountUnchanged ==
  Converted =>
    \A id \in SurvivorIds :
      Input(id).currency = "USD" =>
        /\ RowsOf(id) # {}
        /\ \A i \in RowsOf(id) : tx[i].amount_usd = Input(id).amount

\* a USD row converted by the join although the rate table has no entry for its date
C1_Witness ==
  /\ pc = "done"
  /\ JoinBranch
  /\ \E i \in 1..Len(tx) :
       /\ tx[i].currency = "USD"
       /\ tx[i].per_usd.nan
       /\ tx[i].amount_usd = Num(100, 1)

\* C2: in the join branch, for every surviving non-USD row and every present
\* rate R the table holds for (UTC date of the row, currency of the row), tx has
\* a row of that transaction with amount_usd * R = amount; and every non-USD row
\* of tx with a present rate has amount_usd * per_usd = amount.
C2_DividedByRate ==
  (Converted /\ JoinBranch) =>
    /\ \A id \in SurvivorIds :
         Input(id).currency # "USD" =>
           \A R \in RatesFor(id) :
             ~R.nan =>
               \E i \in RowsOf(id) :
                 /\ ~tx[i].amount_usd.nan
                 /\ tx[i].amount_usd.n * R.n * Input(id).amount.d
                      = Input(id).amount.n * R.d * tx[i].amount_usd.d
    /\ \A i \in 1..Len(tx) :
         (tx[i].currency # "USD" /\ ~tx[i].per_usd.nan) =>
           /\ tx[i].per_usd \in RatesFor(tx[i].transaction_id)
           /\ NumEq(tx[i].amount_usd, Num(tx[i].amount.n * tx[i].per_usd.d,
                                          tx[i].amount.d * tx[i].per_usd.n))

\* the scenario of the specification: USD 100 stays 100, EUR 50 at 0.9 gives 50/0.9
C2_Witness ==
  /\ pc = "done"
  /\ JoinBranch
  /\ \E i, j \in 1..Len(tx) :
       /\ tx[i].currency = "USD" /\ NumEq(tx[i].amount_usd, Num(100, 1))
       /\ tx[j].currency = "EUR" /\ tx[j].amount = Num(50, 1)
       /\ tx[j].per_usd = Num(9, 10)
       /\ NumEq(tx[j].amount_usd, Num(500, 9))

\* the rate file is absent, or it was loaded and its table has no date column
NoConversion == ~fxFile.exists \/ (FxReadable /\ "date" \notin fxFile.cols)

C3_Identity ==
  (NoConversion /\ Converted) =>
    /\ Len(tx) = Cardinality(SurvivorIds)
    /\ \A i \in 1..Len(tx) :
         /\ tx[i].transaction_id \in SurvivorIds
         /\ tx[i].amount_usd = Input(tx[i].transaction_id).amount
    /\ error = NoError
C3_Outputs ==
  (NoConversion /\ pc = "done") =>
    /\ "amount_usd_hist.png" \in figs
    /\ Len(charts.hist) = Cardinality(SurvivorIds)
    /\ report # <<>>
    /\ error = NoError

\* C3: with the rate file absent, or loaded without a date column, amount_usd
\* is the raw amount for every surviving row whatever its currency, no error is
\* raised, and every step from the conversion on leads to the next stage (never
\* to an abort): the histogram is saved and the report is written.
C3_Continues ==
  /\ pc = "convert" => (pc' = "aggregate" /\ error' = NoError)
  /\ pc = "aggregate" => (pc' = "report" /\ "amount_usd_hist.png" \in figs')
  /\ pc = "report" => (pc' = "done" /\ report' # <<>>)
C3_NoRateTableIdentity ==
  /\ [](C3_Identity /\ C3_Outputs)
  /\ [][NoConversion => C3_Continues]_vars

\* a EUR row left unconverted because the rate table has no date column
C3_Witness ==
  /\ pc = "done"
  /\ fxFile.exists
  /\ "date" \notin fxFile.cols
  /\ \E i \in 1..Len(tx) :
       tx[i].currency = "EUR" /\ tx[i].amount_usd = Num(50, 1)

\* a surviving non-USD row for which the table has no entry, or only missing rates
Unmatched(id) ==
  /\ id \in SurvivorIds
  /\ Input(id).currency # "USD"
  /\ \A R \in RatesFor(id) : R.nan

\* C4: in the join branch a surviving non-USD row without a present rate stays
\* in tx with a missing amount_usd (not the raw amount), the run is not
\* aborted, the row counts in the total and the fraud count, and the only
\* aggregate that leaves it out is the histogram of amount_usd.
C4_MissingRatePropagates ==
  (JoinBranch /\ Converted) =>
    /\ \A id \in 1..Len(txFile.rows) :
         Unmatched(id) =>
           /\ RowsOf(id) # {}
           /\ \A i \in RowsOf(id) : tx[i].amount_usd.nan
    /\ \A i \in 1..Len(tx) :
         (tx[i].currency # "USD" /\ tx[i].per_usd.nan) => tx[i].amount_usd.nan
    /\ error = NoError
    /\ Aggregated =>
         /\ total = Len(tx)
         /\ "is_fraud" \in txCols => fraud.v = CountIf(tx, IsFraud)
         /\ Len(charts.hist) = Cardinality({i \in 1..Len(tx) : ~tx[i].amount_usd.nan})
         /\ \A k \in 1..Len(charts.hist) : ~charts.hist[k].nan
         /\ "is_fraud" \in txCols =>
              \A i \in 1..Len(tx) : \E e \in charts.by_hour : e.key = tx[i].hour

\* a fraudulent EUR row without a rate: counted, amount_usd missing, not in the histogram
C4_Witness ==
  /\ pc = "done"
  /\ JoinBranch
  /\ \E id \in 1..Len(txFile.rows) :
       /\ Unmatched(id)
       /\ Input(id).is_fraud
       /\ \E i \in RowsOf(id) : tx[i].amount_usd.nan
  /\ total = 2
  /\ fraud.v >= 1
  /\ Len(charts.hist) = 1

NumRows(c) ==
  {i \in 1..Len(tx) : tx[i].customer_id = c /\ tx[i].last_hour_activity.kind = "num"}
ActiveCustomers ==
  {tx[i].customer_id : i \in {j \in 1..Len(tx) : tx[j].last_hour_activity.kind = "num"}}
\* the k-th smallest of the values V(i), i in I
Kth(I, V(_), k) ==
  CHOOSE x \in {V(i) : i \in I} :
    /\ Cardinality({i \in I : V(i) < x}) < k
    /\ k <= Cardinality({i \in I : V(i) <= x})
\* twice the median of the numbers of customer c
Median2(c) ==
  LET V(i) == tx[i].last_hour_activity.v
      n == Cardinality(NumRows(c))
  IN IF n % 2 = 1 THEN 2 * Kth(NumRows(c), V, (n + 1) \div 2)
     ELSE Kth(NumRows(c), V, n \div 2) + Kth(NumRows(c), V, n \div 2 + 1)
\* twice the median of every customer that has a number
Medians2 == [c \in ActiveCustomers |-> Median2(c)]
\* 200 times the linearly interpolated 95th percentile of the medians m
Percentile200(m) ==
  LET V(c) == m[c]
      n == Cardinality(DOMAIN m)
      lo == (95 * (n - 1)) \div 100
      fr == (95 * (n - 1)) % 100
      a == Kth(DOMAIN m, V, lo + 1)
  IN IF fr = 0 THEN 100 * a
     ELSE 100 * a + fr * (Kth(DOMAIN m, V, lo + 2) - a)

\* C6: the reported count is the number of customers whose median of present
\* unique_merchants values is strictly greater than the linearly interpolated
\* 95th percentile of all customer medians; a median equal to it is not counted.
C6_StrictlyAbovePercentile ==
  (pc = "done" /\ HasLine("count_strict")) =>
    LET m == Medians2
        thr == Percentile200(m)
        above == {c \in DOMAIN m : 100 * m[c] > thr}
    IN /\ LineOf("count_strict").n = Cardinality(above)
       /\ \A c \in DOMAIN m : 100 * m[c] = thr => c \notin above

\* three customers with medians 1, 4, 4: the percentile is 4 and nobody is above it
C6_Witness ==
  /\ pc = "done"
  /\ HasLine("count_strict")
  /\ Cardinality(ActiveCustomers) = 3
  /\ LET m == Medians2
         thr == Percentile200(m)
     IN /\ \E c \in DOMAIN m : 100 * m[c] = thr
        /\ \E c \in DOMAIN m : 100 * m[c] < thr
  /\ LineOf("count_strict").n = 0

Unparsed(r) == r.last_hour_activity.kind \in {"notdict", "nokey", "str"}

\* C7 as stated: a value that is no mapping, a mapping without the key or any
\* other unparseable value makes the report carry the diagnostic and no count.
C7_AsStated ==
  (pc = "done" /\ "last_hour_activity" \in txCols
     /\ \E i \in 1..Len(tx) : Unparsed(tx[i])) =>
    /\ ~HasLine("count_strict")
    /\ HasLine("could_not_parse")
    /\ error = NoError

\* C7 (amended): the metric is skipped and the diagnostic recorded exactly when
\* computing it raises (a unique_merchants value that is not a number); a value
\* that is no mapping or lacks the key counts as missing and the count is still
\* written; in both cases the run does not raise and the report is written.
C7_DiagnosticOnlyOnException ==
  (pc = "done" /\ "last_hour_activity" \in txCols) =>
    /\ (\E i \in 1..Len(tx) : tx[i].last_hour_activity.kind = "str") =>
         (~HasLine("count_strict") /\ HasLine("could_not_parse"))
    /\ (\A i \in 1..Len(tx) : tx[i].last_hour_activity.kind # "str") =>
         (HasLine("count_strict") /\ ~HasLine("could_not_parse"))
    /\ report # <<>>
    /\ HasLine("total")
    /\ error = NoError

\* one row with a non-numeric value gives the diagnostic; no count is written
C7_Witness ==
  /\ pc = "done"
  /\ \E i \in 1..Len(tx) : tx[i].last_hour_activity.kind = "str"
  /\ \E i \in 1..Len(tx) : tx[i].last_hour_activity.kind = "nokey"
  /\ HasLine("could_not_parse")
  /\ ~HasLine("count_strict")

CallsOn(path) == SelectSeq(calls, LAMBDA c : c[1] = path)
\* what load_parquet must have done on a file, given the readers' outcomes
LoadedInOrder(path, primaryOk, fallbackOk) ==
  /\ primaryOk => (CallsOn(path) = <<<<path, "read_parquet">>>> /\ error.path # path)
  /\ (~primaryOk /\ fallbackOk) =>
       /\ CallsOn(path) = <<<<path, "read_parquet">>, <<path, "duckdb">>>>
       /\ error.path # path
  /\ (~primaryOk /\ ~fallbackOk) =>
       /\ CallsOn(path) = <<<<path, "read_parquet">>, <<path, "duckdb">>>>
       /\ pc = "aborted"
       /\ error = [path |-> path, cause |-> "duckdb"]

\* C8: load_parquet calls the primary reader first and the fallback only after
\* the primary failed; it returns the table of the first reader that succeeds;
\* when both fail it raises an error naming the path and the fallback's
\* exception; for the transactions file nothing is plotted or written then.
C8_LoaderOrder ==
  /\ pc # "load" => LoadedInOrder(TXPath, readers.txPrimary, readers.txFallback)
  /\ pc = "clean" => (tx = txFile.rows /\ txCols = txFile.cols)
  /\ (pc = "aborted" /\ error.path = TXPath) =>
       (figs = {} /\ lines = <<>> /\ report = <<>>)
  /\ (fxFile.exists /\ (Converted \/ (pc = "aborted" /\ error.path # TXPath))) =>
       LoadedInOrder(FXPath, readers.fxPrimary, readers.fxFallback)
  /\ ~fxFile.exists => CallsOn(FXPath) = <<>>

\* both readers failed on the transactions file: the run is aborted with no output
C8_Witness ==
  /\ pc = "aborted"
  /\ calls = <<<<TXPath, "read_parquet">>, <<TXPath, "duckdb">>>>
  /\ error = [path |-> TXPath, cause |-> "duckdb"]
  /\ figs = {}
  /\ report = <<>>

FraudSurvivors == {id \in SurvivorIds : Input(id).is_fraud}

\* C9 as stated: without a fraud column the report has the total and no fraud
\* lines; with it the fraud count is the number of surviving rows flagged
\* fraudulent and the rate is 100 times their share of the surviving rows.
C9_FraudKpis ==
  pc = "done" =>
    /\ HasLine("total")
    /\ "is_fraud" \notin txFile.cols => (~HasLine("fraud") /\ ~HasLine("fraud_rate"))
    /\ "is_fraud" \in txFile.cols =>
         /\ HasLine("fraud") /\ HasLine("fraud_rate")
         /\ LineOf("fraud").n = Cardinality(FraudSurvivors)
         /\ SurvivorIds # {} =>
              NumEq(fraud_rate.v, Num(100 * Cardinality(FraudSurvivors),
                                      Cardinality(SurvivorIds)))

\* C10 as stated: the join keeps one row per surviving transaction, so the
\* total is the number of surviving rows and each counts once in the fraud count.
C10_JoinKeepsRows ==
  (JoinBranch /\ Converted) =>
    /\ Len(tx) = Cardinality(SurvivorIds)
    /\ \A id \in SurvivorIds : Cardinality(RowsOf(id)) = 1
    /\ Aggregated =>
         /\ total = Cardinality(SurvivorIds)
         /\ "is_fraud" \in txCols => fraud.v = Cardinality(FraudSurvivors)

====
